---- MODULE Spec2Model ----
(***************************************************************************)
(* Model of convert_wb_report.py: main() runs the pipeline                 *)
(*   load_report -> process_report -> add_total_row ->                     *)
(*   create_formatted_excel -> print_summary                               *)
(* inside one try/except.                                                  *)
(*                                                                         *)
(* Amounts.  The input amounts are integers counted in units of            *)
(* 1/SubUnits of one hundredth; derived amounts (mean price, unit cost,    *)
(* ...) are exact rationals [num, den] over that unit.  round(x, 2) is     *)
(* round-half-to-even to whole hundredths, as numpy/Python round it; the   *)
(* binary representation error of floats is not modelled.                  *)
(*                                                                         *)
(* Cells.  A DataFrame cell is a tagged value [t, v, s]:                   *)
(*   t = "num" number v (hundredths for money, units for counts),          *)
(*   t = "str" string (s names it, v tells which input row it came from),  *)
(*   t = "nan" / "inf" the float results of a division by zero.            *)
(*                                                                         *)
(* Column names (the source's are Russian):                                *)
(*   article = 'Артикул поставщика', doc = 'Тип документа',                *)
(*   qty = 'Кол-во', price = 'Цена розничная',                             *)
(*   fee = 'Услуги по доставке товара покупателю',                         *)
(*   pen = 'Общая сумма штрафов',                                          *)
(*   rem = 'К перечислению Продавцу за реализованный Товар',               *)
(*   name = 'Название', brand = 'Бренд'.                                   *)
(* Summary columns are named after the local variables that fill them.    *)
(***************************************************************************)
EXTENDS Integers, Sequences, FiniteSets, TLC

VARIABLES pc, input, df, summary_df, summary_df_with_total, ws, saved,
          console, stages, err

vars == <<pc, input, df, summary_df, summary_df_with_total, ws, saved,
          console, stages, err>>

----------------------------------------------------------------------------
(* Bounds of the model *)

\* longest input table
MaxRows == 2

\* units per hundredth: 2 makes half a hundredth (a rounding tie) expressible
SubUnits == 2

----------------------------------------------------------------------------
(* Configuration *)

\* COST_PERCENTAGE = 0.6
COST_PERCENTAGE == [num |-> 6, den |-> 10]

\* SORT_BY = 'Продано (шт)'
SORT_BY == "qty_sold"

\* SORT_ASCENDING = False
SORT_ASCENDING == FALSE

\* 'Продажа' and 'Возврат'; any other document type is "Other"
Sale == "Sale"
Return == "Return"

\* the marker 'ИТОГО:' written into the article cell of the total row
TotalMarker == "ITOGO:"

\* a blank article cell, which pandas reads as NaN
NaN == "NaN"

----------------------------------------------------------------------------
(* Cell values *)

NumV(x) == [t |-> "num", v |-> x, s |-> ""]
StrV(str, i) == [t |-> "str", v |-> i, s |-> str]
BlankV == StrV("", 0)
NanV == [t |-> "nan", v |-> 0, s |-> ""]
InfV(sign) == [t |-> "inf", v |-> sign, s |-> ""]

\* isinstance(value, (int, float)): nan and inf are floats
IsNumber(c) == c.t \in {"num", "nan", "inf"}

----------------------------------------------------------------------------
(* Arithmetic *)

Rat(n, d) == [num |-> n, den |-> d]
RAdd(a, b) == Rat(a.num * b.den + b.num * a.den, a.den * b.den)
RSub(a, b) == Rat(a.num * b.den - b.num * a.den, a.den * b.den)
RMul(a, b) == Rat(a.num * b.num, a.den * b.den)
RInt(n) == Rat(n, 1)

\* num/den rounded to the nearest integer, ties to the even one (den > 0)
RoundHalfEven(num, den) ==
  LET q == num \div den
      r == num % den
  IN  IF 2 * r < den THEN q
      ELSE IF 2 * r > den THEN q + 1
      ELSE IF q % 2 = 0 THEN q ELSE q + 1

\* round(x, 2) of an amount x in units: the result counts hundredths
round2(x) == RoundHalfEven(x.num, x.den * SubUnits)

\* round(h, 2) of an amount that already counts hundredths
round2h(h) == RoundHalfEven(h, 1)

\* round(a / b * 100, 2) for b > 0: the result counts hundredths of a percent
roundPercent(a, b) == RoundHalfEven(10000 * a.num * b.den, a.den * b.num)

RECURSIVE Sum(_)
\* Series.sum() of a sequence of integers
Sum(s) == IF s = <<>> THEN 0 ELSE Head(s) + Sum(Tail(s))

\* df[c] of a table of input rows
Column(d, c) == [i \in 1..Len(d) |-> d[i][c]]

\* df[c] of a table of cells, as numbers
NumColumn(d, c) == [i \in 1..Len(d) |-> d[i][c].v]

----------------------------------------------------------------------------
(* Input tables *)

Articles == {"A", "B"}
DocTypes == {Sale, Return, "Other"}

\* whole hundredths, in units
H(h) == h * SubUnits

\* quantity, retail price, delivery fee, penalty and remittance of a row:
\* a cheap item with two fractional charges, a plain profitable line, a
\* fee with a negative remittance, a penalty without remittance
Profiles ==
  {<<1, H(1), 1, 1, H(2)>>,
   <<2, H(4), 0, 0, H(30)>>,
   <<1, H(4), H(1), 0, 0 - H(2)>>,
   <<2, H(1), 0, H(50), 0>>}

Row(a, d, p) ==
  [article |-> a, doc |-> d, qty |-> p[1], price |-> p[2],
   fee |-> p[3], pen |-> p[4], rem |-> p[5]]

\* a line without supplier article (its article cell is blank)
BlankArticleRow == Row(NaN, "Other", <<0, 0, H(1), 0, 0>>)

Rows ==
  {Row(a, d, p) : a \in Articles, d \in DocTypes, p \in Profiles}
    \cup {BlankArticleRow}

\* the title and brand cells of row i hold strings of their own, named by i
WithNames(f) ==
  [i \in DOMAIN f |->
     [article |-> f[i].article, doc |-> f[i].doc, qty |-> f[i].qty,
      price |-> f[i].price, fee |-> f[i].fee, pen |-> f[i].pen,
      rem |-> f[i].rem, name |-> i, brand |-> i]]

Tables == UNION {{WithNames(f) : f \in [1..n -> Rows]} : n \in 0..MaxRows}

\* what main() can be started on: a path that does not exist, a file that
\* read_excel or the article column lookup rejects, or a readable report
\* with or without the optional brand column
Inputs ==
  {[kind |-> "missing", table |-> <<>>, hasBrand |-> FALSE],
   [kind |-> "unreadable", table |-> <<>>, hasBrand |-> FALSE]}
    \cup {[kind |-> "ok", table |-> t, hasBrand |-> b] :
            t \in Tables, b \in BOOLEAN}

----------------------------------------------------------------------------
(* process_report *)

RECURSIVE uniqueFrom(_, _)
uniqueFrom(s, seen) ==
  IF s = <<>> THEN <<>>
  ELSE IF Head(s) \in seen THEN uniqueFrom(Tail(s), seen)
  ELSE <<Head(s)>> \o uniqueFrom(Tail(s), seen \cup {Head(s)})

uniqueNoDedup(s) == s

\* Series.unique(): the distinct values in order of first appearance
unique(s) == uniqueFrom(s, {})

\* df[df['Артикул поставщика'] == article]; NaN == NaN is False
article_data(d, article) ==
  IF article = NaN THEN <<>>
  ELSE SelectSeq(d, LAMBDA r : r.article = article)

\* article_data[article_data['Тип документа'] == 'Продажа']
sales_data(ad) == SelectSeq(ad, LAMBDA r : r.doc = Sale)

\* article_data[article_data['Тип документа'] == 'Возврат']
returns_data(ad) == SelectSeq(ad, LAMBDA r : r.doc = Return)

qty_sold(ad) == Sum(Column(sales_data(ad), "qty"))

qty_returned(ad) == Sum(Column(returns_data(ad), "qty"))

avg_price(ad) ==
  LET sd == sales_data(ad)
  IN  IF Len(sd) > 0 THEN Rat(Sum(Column(sd, "price")), Len(sd)) ELSE RInt(0)

cost_price(ad) == RMul(avg_price(ad), COST_PERCENTAGE)

total_cost(ad) == RMul(cost_price(ad), RInt(qty_sold(ad)))

logistics_costSalesOnly(ad) == RInt(Sum(Column(sales_data(ad), "fee")))

logistics_cost(ad) == RInt(Sum(Column(ad, "fee")))

penalties(ad) == RInt(Sum(Column(ad, "pen")))

total_expensesNoPenalties(ad) == RAdd(total_cost(ad), logistics_cost(ad))

total_expenses(ad) ==
  RAdd(RAdd(total_cost(ad), logistics_cost(ad)), penalties(ad))

revenue(ad) == RInt(Sum(Column(ad, "rem")))

net_profit(ad) == RSub(revenue(ad), total_expenses(ad))

margin_percentNonZeroGuard(ad) ==
  IF revenue(ad).num # 0
    THEN IF revenue(ad).num > 0
           THEN roundPercent(net_profit(ad), revenue(ad))
           ELSE roundPercent(RSub(RInt(0), net_profit(ad)),
                             RSub(RInt(0), revenue(ad)))
    ELSE 0

\* round((net_profit / revenue * 100) if revenue > 0 else 0, 2)
margin_percent(ad) ==
  IF revenue(ad).num > 0
    THEN roundPercent(net_profit(ad), revenue(ad))
    ELSE round2h(0)

\* the dict appended to summary for one article (article_data is not empty)
summary_row(article, ad, hasBrand) ==
  [article |-> StrV(article, 0),
   brand |-> IF hasBrand THEN StrV("brand", ad[1].brand) ELSE BlankV,
   product_name |-> StrV("name", ad[1].name),
   qty_sold |-> NumV(qty_sold(ad)),
   qty_returned |-> NumV(qty_returned(ad)),
   avg_price |-> NumV(round2(avg_price(ad))),
   cost_price |-> NumV(round2(cost_price(ad))),
   total_cost |-> NumV(round2(total_cost(ad))),
   logistics_cost |-> NumV(round2(logistics_cost(ad))),
   penalties |-> NumV(round2(penalties(ad))),
   total_expenses |-> NumV(round2(total_expenses(ad))),
   revenue |-> NumV(round2(revenue(ad))),
   net_profit |-> NumV(round2(net_profit(ad))),
   margin_percent |-> NumV(margin_percent(ad))]

\* the list summary after the loop over df['Артикул поставщика'].unique()
summary(d, hasBrand) ==
  LET arts == unique(Column(d, "article"))
  IN  [k \in 1..Len(arts) |->
         summary_row(arts[k], article_data(d, arts[k]), hasBrand)]

Injective(p) == \A i, j \in DOMAIN p : p[i] = p[j] => i = j

InOrder(x, y) == IF SORT_ASCENDING THEN x <= y ELSE x >= y

\* DataFrame.sort_values(SORT_BY, ascending=SORT_ASCENDING) with the default
\* kind='quicksort', which is not a stable sort: every ordering that is
\* monotonic in the sort column can come out
sort_values(s) ==
  LET n == Len(s)
      orders == {p \in [1..n -> 1..n] :
                   /\ Injective(p)
                   /\ \A i, j \in 1..n :
                        i < j => InOrder(s[p[i]][SORT_BY].v, s[p[j]][SORT_BY].v)}
  IN  {[i \in 1..n |-> s[p[i]]] : p \in orders}

\* the loop body raises IndexError at .iloc[0] for a NaN article (its
\* article_data is empty); pd.DataFrame([]) has no columns, so sort_values
\* raises KeyError for a table without rows
process_report_error(d) ==
  IF \E i \in 1..Len(d) : d[i].article = NaN THEN "IndexError"
  ELSE IF d = <<>> THEN "KeyError"
  ELSE "none"

\* the values process_report can return
process_report(d, hasBrand) == sort_values(summary(d, hasBrand))

----------------------------------------------------------------------------
(* add_total_row *)

\* round(net.sum() / rev.sum() * 100, 2) on numpy floats: a zero divisor
\* gives nan or an infinity (with a warning), not an exception
total_margin(s) ==
  LET n == Sum(NumColumn(s, "net_profit"))
      r == Sum(NumColumn(s, "revenue"))
  IN  IF r = 0 THEN (IF n = 0 THEN NanV ELSE InfV(IF n > 0 THEN 1 ELSE 0 - 1))
      ELSE IF r > 0 THEN NumV(roundPercent(RInt(n), RInt(r)))
      ELSE NumV(roundPercent(RInt(0 - n), RInt(0 - r)))

total_rowExpensesFromParts(s) ==
  [article |-> StrV(TotalMarker, 0),
   brand |-> BlankV,
   product_name |-> BlankV,
   qty_sold |-> NumV(Sum(NumColumn(s, "qty_sold"))),
   qty_returned |-> NumV(Sum(NumColumn(s, "qty_returned"))),
   avg_price |-> BlankV,
   cost_price |-> BlankV,
   total_cost |-> NumV(Sum(NumColumn(s, "total_cost"))),
   logistics_cost |-> NumV(Sum(NumColumn(s, "logistics_cost"))),
   penalties |-> NumV(Sum(NumColumn(s, "penalties"))),
   total_expenses |->
     NumV(Sum(NumColumn(s, "total_cost")) + Sum(NumColumn(s, "logistics_cost"))
            + Sum(NumColumn(s, "penalties"))),
   revenue |-> NumV(Sum(NumColumn(s, "revenue"))),
   net_profit |-> NumV(Sum(NumColumn(s, "net_profit"))),
   margin_percent |-> total_margin(s)]

total_row(s) ==
  [article |-> StrV(TotalMarker, 0),
   brand |-> BlankV,
   product_name |-> BlankV,
   qty_sold |-> NumV(Sum(NumColumn(s, "qty_sold"))),
   qty_returned |-> NumV(Sum(NumColumn(s, "qty_returned"))),
   avg_price |-> BlankV,
   cost_price |-> BlankV,
   total_cost |-> NumV(round2h(Sum(NumColumn(s, "total_cost")))),
   logistics_cost |-> NumV(round2h(Sum(NumColumn(s, "logistics_cost")))),
   penalties |-> NumV(round2h(Sum(NumColumn(s, "penalties")))),
   total_expenses |-> NumV(round2h(Sum(NumColumn(s, "total_expenses")))),
   revenue |-> NumV(round2h(Sum(NumColumn(s, "revenue")))),
   net_profit |-> NumV(round2h(Sum(NumColumn(s, "net_profit")))),
   margin_percent |-> total_margin(s)]

\* pd.concat([df, pd.DataFrame([total_row])], ignore_index=True)
add_total_row(s) == Append(s, total_row(s))

----------------------------------------------------------------------------
(* create_formatted_excel *)

\* list(df.columns): the keys of the summary dict in insertion order
headers ==
  <<"article", "brand", "product_name", "qty_sold", "qty_returned",
    "avg_price", "cost_price", "total_cost", "logistics_cost", "penalties",
    "total_expenses", "revenue", "net_profit", "margin_percent">>

DefaultFont == [bold |-> FALSE, italic |-> FALSE, color |-> "default", size |-> 11]
Font(b, i, c, sz) == [bold |-> b, italic |-> i, color |-> c, size |-> sz]

NoBorder == "none"
ThinBorder == "thin"

EmptyCell ==
  [value |-> BlankV, font |-> DefaultFont, fill |-> "none",
   alignment |-> "default", number_format |-> "General", border |-> NoBorder]

\* value < 0 and value > 0 on a number; both are False on nan
Negative(c) == (c.t = "num" /\ c.v < 0) \/ (c.t = "inf" /\ c.v < 0)
Positive(c) == (c.t = "num" /\ c.v > 0) \/ (c.t = "inf" /\ c.v > 0)

IsTotalRowOffByOne(n, row_idx) == row_idx = n + 4

\* row_idx == len(df) + 3
IsTotalRow(n, row_idx) == row_idx = n + 3

\* the cell written at (row_idx, col_idx) of a frame of n rows
DataCell(n, row_idx, col_idx, value) ==
  LET rowFont == IF IsTotalRow(n, row_idx)
                   THEN Font(TRUE, FALSE, "default", 11) ELSE DefaultFont
  IN  [value |-> value,
       font |-> IF col_idx = 13 /\ IsNumber(value) /\ Negative(value)
                  THEN Font(TRUE, FALSE, "FF0000", 11)
                ELSE IF col_idx = 13 /\ IsNumber(value) /\ Positive(value)
                  THEN Font(TRUE, FALSE, "008000", 11)
                ELSE rowFont,
       fill |-> IF IsTotalRow(n, row_idx) THEN "E7E6E6" ELSE "none",
       alignment |-> IF col_idx <= 3 THEN "left" ELSE "right",
       number_format |-> IF col_idx \in 6..13 THEN "#,##0.00"
                         ELSE IF col_idx = 14 THEN "0.00%" ELSE "General",
       border |-> ThinBorder]

HeaderCell(col_idx) ==
  [value |-> StrV(headers[col_idx], 0),
   font |-> Font(TRUE, FALSE, "FFFFFF", 10), fill |-> "4472C4",
   alignment |-> "center", number_format |-> "General", border |-> ThinBorder]

TitleCell ==
  [value |-> StrV("title", 0), font |-> Font(TRUE, FALSE, "FFFFFF", 14),
   fill |-> "366092", alignment |-> "center", number_format |-> "General",
   border |-> NoBorder]

SubtitleCell ==
  [value |-> StrV("subtitle", 0), font |-> Font(FALSE, TRUE, "666666", 10),
   fill |-> "none", alignment |-> "default", number_format |-> "General",
   border |-> NoBorder]

\* the worksheet: rows 1 and 2 hold the merged title and subtitle in column
\* A, row 3 the headers, row i + 3 record i of the frame
worksheet(d) ==
  [row_idx \in 1..(Len(d) + 3) |->
     [col_idx \in 1..Len(headers) |->
        IF row_idx = 1 THEN (IF col_idx = 1 THEN TitleCell ELSE EmptyCell)
        ELSE IF row_idx = 2 THEN (IF col_idx = 1 THEN SubtitleCell ELSE EmptyCell)
        ELSE IF row_idx = 3 THEN HeaderCell(col_idx)
        ELSE DataCell(Len(d), row_idx, col_idx, d[row_idx - 3][headers[col_idx]])]]

----------------------------------------------------------------------------
(* print_summary *)

\* returned / sold * 100 on the last row.  The cells of df.iloc[-1] are
\* numpy integers or Python integers depending on the pandas build: with a
\* zero divisor the first print nan with a warning and the second raise
\* ZeroDivisionError
print_summary_can_raise(d) == d[Len(d)].qty_sold.v = 0

----------------------------------------------------------------------------
(* main *)

Loader == "Loader"
Aggregator == "Aggregator"
Totalizer == "Totalizer"
Renderer == "Renderer"
Reporter == "Reporter"

Pipeline == <<Loader, Aggregator, Totalizer, Renderer, Reporter>>

Ran(stage, ok) == [stage |-> stage, ok |-> ok]

Init ==
  /\ input \in Inputs
  /\ pc = "main"
  /\ df = <<>>
  /\ summary_df = <<>>
  /\ summary_df_with_total = <<>>
  /\ ws = <<>>
  /\ saved = FALSE
  /\ console = <<"banner">>
  /\ stages = <<>>
  /\ err = "none"

MainFileNotFoundRunsAnyway ==
  /\ pc = "main"
  /\ input.kind = "missing"
  /\ console' = Append(console, "file_not_found")
  /\ stages' = Append(stages, Ran(Loader, FALSE))
  /\ err' = "FileNotFoundError"
  /\ pc' = "except"
  /\ UNCHANGED <<input, df, summary_df, summary_df_with_total, ws, saved>>

\* if not input_path.exists(): message and return
MainFileNotFound ==
  /\ pc = "main"
  /\ input.kind = "missing"
  /\ console' = Append(console, "file_not_found")
  /\ pc' = "exit"
  /\ UNCHANGED <<input, df, summary_df, summary_df_with_total, ws, saved,
                 stages, err>>

\* df = load_report(input_path)
LoadReport ==
  /\ pc = "main"
  /\ input.kind = "ok"
  /\ df' = input.table
  /\ console' = console \o <<"loading", "rows_loaded", "articles_unique">>
  /\ stages' = Append(stages, Ran(Loader, TRUE))
  /\ pc' = "loaded"
  /\ UNCHANGED <<input, summary_df, summary_df_with_total, ws, saved, err>>

\* pd.read_excel or df['Артикул поставщика'] raises
LoadReportRaises ==
  /\ pc = "main"
  /\ input.kind = "unreadable"
  /\ console' = Append(console, "loading")
  /\ stages' = Append(stages, Ran(Loader, FALSE))
  /\ err' = "ReadError"
  /\ pc' = "except"
  /\ UNCHANGED <<input, df, summary_df, summary_df_with_total, ws, saved>>

\* summary_df = process_report(df)
ProcessReport ==
  /\ pc = "loaded"
  /\ process_report_error(df) = "none"
  /\ summary_df' \in process_report(df, input.hasBrand)
  \* (the progress line printed every 50 articles is left out)
  /\ console' = console \o <<"processing", "articles_processed">>
  /\ stages' = Append(stages, Ran(Aggregator, TRUE))
  /\ pc' = "aggregated"
  /\ UNCHANGED <<input, df, summary_df_with_total, ws, saved, err>>

ProcessReportRaises ==
  /\ pc = "loaded"
  /\ process_report_error(df) # "none"
  /\ console' = Append(console, "processing")
  /\ stages' = Append(stages, Ran(Aggregator, FALSE))
  /\ err' = process_report_error(df)
  /\ pc' = "except"
  /\ UNCHANGED <<input, df, summary_df, summary_df_with_total, ws, saved>>

\* summary_df_with_total = add_total_row(summary_df)
AddTotalRow ==
  /\ pc = "aggregated"
  /\ summary_df_with_total' = add_total_row(summary_df)
  /\ stages' = Append(stages, Ran(Totalizer, TRUE))
  /\ pc' = "totalized"
  /\ UNCHANGED <<input, df, summary_df, ws, saved, console, err>>

\* create_formatted_excel(summary_df_with_total, output_path)
CreateFormattedExcel ==
  /\ pc = "totalized"
  /\ ws' = worksheet(summary_df_with_total)
  /\ saved' = TRUE
  /\ console' = console \o <<"creating_excel", "file_saved">>
  /\ stages' = Append(stages, Ran(Renderer, TRUE))
  /\ pc' = "rendered"
  /\ UNCHANGED <<input, df, summary_df, summary_df_with_total, err>>

\* wb.save(output_path) raises (the path is not writable): nothing is written
CreateFormattedExcelRaises ==
  /\ pc = "totalized"
  /\ console' = Append(console, "creating_excel")
  /\ stages' = Append(stages, Ran(Renderer, FALSE))
  /\ err' = "SaveError"
  /\ pc' = "except"
  /\ UNCHANGED <<input, df, summary_df, summary_df_with_total, ws, saved>>

\* print_summary(summary_df_with_total)
PrintSummary ==
  /\ pc = "rendered"
  /\ console' = Append(console, "statistics")
  /\ stages' = Append(stages, Ran(Reporter, TRUE))
  /\ pc' = "reported"
  /\ UNCHANGED <<input, df, summary_df, summary_df_with_total, ws, saved, err>>

PrintSummaryRaisesAndRemovesFile ==
  /\ pc = "rendered"
  /\ print_summary_can_raise(summary_df_with_total)
  /\ console' = Append(console, "statistics_head")
  /\ stages' = Append(stages, Ran(Reporter, FALSE))
  /\ err' = "ZeroDivisionError"
  /\ saved' = FALSE
  /\ pc' = "except"
  /\ UNCHANGED <<input, df, summary_df, summary_df_with_total, ws>>

PrintSummaryRaises ==
  /\ pc = "rendered"
  /\ print_summary_can_raise(summary_df_with_total)
  /\ console' = Append(console, "statistics_head")
  /\ stages' = Append(stages, Ran(Reporter, FALSE))
  /\ err' = "ZeroDivisionError"
  /\ pc' = "except"
  /\ UNCHANGED <<input, df, summary_df, summary_df_with_total, ws, saved>>

\* the end of the try block: the confirmation with the output path
MainDone ==
  /\ pc = "reported"
  /\ console' = Append(console, "done")
  /\ pc' = "exit"
  /\ UNCHANGED <<input, df, summary_df, summary_df_with_total, ws, saved,
                 stages, err>>

\* except Exception as e: message and traceback, then main returns
MainExcept ==
  /\ pc = "except"
  /\ console' = console \o <<"error", "traceback">>
  /\ pc' = "exit"
  /\ UNCHANGED <<input, df, summary_df, summary_df_with_total, ws, saved,
                 stages, err>>

Next ==
  \/ MainFileNotFound
  \/ LoadReport
  \/ LoadReportRaises
  \/ ProcessReport
  \/ ProcessReportRaises
  \/ AddTotalRow
  \/ CreateFormattedExcel
  \/ CreateFormattedExcelRaises
  \/ PrintSummary
  \/ PrintSummaryRaises
  \/ MainDone
  \/ MainExcept

Spec == Init /\ [][Next]_vars

----------------------------------------------------------------------------
(* Vocabulary of the properties.  Sums are taken here over sets of row     *)
(* numbers of the input table, not by filtering it as the program does.    *)

Completed(stage) == \E k \in 1..Len(stages) : stages[k] = Ran(stage, TRUE)
Failed(stage) == \E k \in 1..Len(stages) : stages[k] = Ran(stage, FALSE)

RowsOf(a) == {i \in 1..Len(df) : df[i].article = a}
SaleRowsOf(a) == {i \in RowsOf(a) : df[i].doc = Sale}
ReturnRowsOf(a) == {i \in RowsOf(a) : df[i].doc = Return}

RECURSIVE SumOver(_, _)
SumOver(I, c) ==
  IF I = {} THEN 0
  ELSE LET i == CHOOSE x \in I : TRUE IN df[i][c] + SumOver(I \ {i}, c)

RECURSIVE SumCells(_, _)
SumCells(K, c) ==
  IF K = {} THEN 0
  ELSE LET k == CHOOSE x \in K : TRUE
       IN  summary_df[k][c].v + SumCells(K \ {k}, c)

Abs(x) == IF x < 0 THEN 0 - x ELSE x

Records == 1..Len(summary_df)

\* the article a record of summary_df stands for
ArticleOf(k) == summary_df[k].article.s

\* the raw net profit of article a, as a fraction over the denominator
\* NetDen(a): revenue - (0.6 * mean sale price * units sold + fees + penalties)
NetDen(a) ==
  IF SaleRowsOf(a) = {} THEN 1 ELSE 10 * Cardinality(SaleRowsOf(a))
NetNum(a) ==
  NetDen(a) * (SumOver(RowsOf(a), "rem") - SumOver(RowsOf(a), "fee")
                 - SumOver(RowsOf(a), "pen"))
    - (IF SaleRowsOf(a) = {} THEN 0
       ELSE 6 * SumOver(SaleRowsOf(a), "price") * SumOver(SaleRowsOf(a), "qty"))

----------------------------------------------------------------------------
(* C1: when process_report has returned, summary_df holds exactly one      *)
(* record per distinct article of the input: as many records as distinct   *)
(* articles, no article in two records, every input article in a record.   *)
C1_OneRecordPerArticle ==
  Completed(Aggregator) =>
    /\ Len(summary_df) = Cardinality({df[i].article : i \in 1..Len(df)})
    /\ \A j, k \in Records : ArticleOf(j) = ArticleOf(k) => j = k
    /\ \A i \in 1..Len(df) : \E k \in Records : ArticleOf(k) = df[i].article

\* two rows of one article were folded into one record
C1_Witness ==
  /\ Completed(Aggregator)
  /\ Len(df) = 2
  /\ Len(summary_df) = 1

(* C2: per record, units sold, mean sale price and unit cost are functions *)
(* of the article's Sale rows alone, units returned of its Return rows     *)
(* alone, and logistics, penalties and revenue are the sums over all rows  *)
(* of the article whatever their document type; rows of other articles do  *)
(* not contribute.                                                         *)
C2_RowsThatCount ==
  Completed(Aggregator) =>
    \A k \in Records :
      LET a == ArticleOf(k)
          n == Cardinality(SaleRowsOf(a))
          prices == SumOver(SaleRowsOf(a), "price")
      IN  /\ summary_df[k].qty_sold.v = SumOver(SaleRowsOf(a), "qty")
          /\ summary_df[k].qty_returned.v = SumOver(ReturnRowsOf(a), "qty")
          /\ summary_df[k].avg_price.v =
               (IF n = 0 THEN 0 ELSE RoundHalfEven(prices, n * SubUnits))
          /\ summary_df[k].cost_price.v =
               (IF n = 0 THEN 0
                ELSE RoundHalfEven(6 * prices, 10 * n * SubUnits))
          /\ summary_df[k].logistics_cost.v =
               RoundHalfEven(SumOver(RowsOf(a), "fee"), SubUnits)
          /\ summary_df[k].penalties.v =
               RoundHalfEven(SumOver(RowsOf(a), "pen"), SubUnits)
          /\ summary_df[k].revenue.v =
               RoundHalfEven(SumOver(RowsOf(a), "rem"), SubUnits)

\* an article with a Sale row and a row of another type that carries a fee
\* and a price
C2_Witness ==
  /\ Completed(Aggregator)
  /\ \E a \in Articles :
       /\ SaleRowsOf(a) # {}
       /\ \E i \in RowsOf(a) \ SaleRowsOf(a) : df[i].fee > 0 /\ df[i].price > 0

(* C3 as stated: in every record the stored, rounded fields satisfy       *)
(* total_expenses = total_cost + logistics_cost + penalties and            *)
(* net_profit = revenue - total_expenses exactly.                          *)
C3_ExactAfterRounding ==
  Completed(Aggregator) =>
    \A k \in Records :
      /\ summary_df[k].total_expenses.v =
           summary_df[k].total_cost.v + summary_df[k].logistics_cost.v
             + summary_df[k].penalties.v
      /\ summary_df[k].net_profit.v =
           summary_df[k].revenue.v - summary_df[k].total_expenses.v

(* C3 amended: each field being rounded on its own, the stored             *)
(* total_expenses is within 0.02 of total_cost + logistics_cost +          *)
(* penalties and the stored net_profit within 0.01 of revenue -            *)
(* total_expenses.                                                         *)
C3_WithinRounding ==
  Completed(Aggregator) =>
    \A k \in Records :
      /\ Abs(summary_df[k].total_expenses.v
               - (summary_df[k].total_cost.v + summary_df[k].logistics_cost.v
                    + summary_df[k].penalties.v)) <= 2
      /\ Abs(summary_df[k].net_profit.v
               - (summary_df[k].revenue.v - summary_df[k].total_expenses.v)) <= 1

\* a record whose stored expenses are 0.02 away from the sum of its parts
C3_Witness ==
  /\ Completed(Aggregator)
  /\ \E k \in Records :
       Abs(summary_df[k].total_expenses.v
             - (summary_df[k].total_cost.v + summary_df[k].logistics_cost.v
                  + summary_df[k].penalties.v)) = 2

(* C4: add_total_row returns the records it was given, unchanged and in    *)
(* the same order, followed by exactly one record, which carries the total *)
(* marker and in each summed column the sum of the already rounded cells   *)
(* of that column.                                                         *)
C4_TotalRow ==
  Completed(Totalizer) =>
    LET n == Len(summary_df)
        total == summary_df_with_total[n + 1]
    IN  /\ Len(summary_df_with_total) = n + 1
        /\ \A k \in 1..n : summary_df_with_total[k] = summary_df[k]
        /\ total.article = StrV(TotalMarker, 0)
        /\ \A c \in {"qty_sold", "qty_returned", "total_cost", "logistics_cost",
                      "penalties", "total_expenses", "revenue", "net_profit"} :
             total[c] = NumV(SumCells(1..n, c))

\* two records whose rounded expenses differ from the sum of their parts
C4_Witness ==
  /\ Completed(Totalizer)
  /\ Len(summary_df) = 2
  /\ LET total == summary_df_with_total[3]
     IN  /\ total.total_expenses.v
              # total.total_cost.v + total.logistics_cost.v + total.penalties.v
         /\ total.qty_sold.v > 0

(* C5 as stated: summary_df is ordered by non-increasing units sold, and   *)
(* records with equal units sold stand in the order in which their         *)
(* articles first appear in the input.                                     *)
FirstRowOf(a) == CHOOSE i \in RowsOf(a) : \A j \in RowsOf(a) : i <= j

C5_StableSort ==
  Completed(Aggregator) =>
    \A j, k \in Records :
      j < k =>
        /\ summary_df[j].qty_sold.v >= summary_df[k].qty_sold.v
        /\ summary_df[j].qty_sold.v = summary_df[k].qty_sold.v
             => FirstRowOf(ArticleOf(j)) < FirstRowOf(ArticleOf(k))

(* C6: margin_percent is net_profit / revenue * 100 rounded to 2 decimals  *)
(* when the article's revenue is positive and 0 otherwise; an article      *)
(* without Sale rows has mean price, unit cost and total cost 0 and net    *)
(* profit revenue - (logistics + penalties).                               *)
C6_MarginGuard ==
  Completed(Aggregator) =>
    \A k \in Records :
      LET a == ArticleOf(k)
          rev == SumOver(RowsOf(a), "rem")
      IN  /\ rev > 0 =>
               summary_df[k].margin_percent =
                 NumV(RoundHalfEven(10000 * NetNum(a), NetDen(a) * rev))
          /\ rev <= 0 => summary_df[k].margin_percent = NumV(0)
          /\ SaleRowsOf(a) = {} =>
               /\ summary_df[k].avg_price = NumV(0)
               /\ summary_df[k].cost_price = NumV(0)
               /\ summary_df[k].total_cost = NumV(0)
               /\ summary_df[k].net_profit =
                    NumV(RoundHalfEven(rev - SumOver(RowsOf(a), "fee")
                                         - SumOver(RowsOf(a), "pen"), SubUnits))

\* an article without Sale rows, without revenue and with a penalty, whose
\* net profit is negative, beside an article with a positive margin
C6_Witness ==
  /\ Completed(Aggregator)
  /\ \E j, k \in Records :
       /\ SaleRowsOf(ArticleOf(j)) = {}
       /\ summary_df[j].revenue.v = 0
       /\ summary_df[j].net_profit.v = 0 - summary_df[j].penalties.v
       /\ summary_df[j].net_profit.v < 0
       /\ summary_df[j].margin_percent.v = 0
       /\ summary_df[k].revenue.v > 0
       /\ summary_df[k].margin_percent.v > 0

(* C7 as stated: on a report without rows the run ends with zero           *)
(* aggregated records and with the total record appended, all its sums 0.  *)
C7_EmptyTableTotal ==
  (pc = "exit" /\ input.kind = "ok" /\ input.table = <<>>) =>
    /\ Completed(Aggregator)
    /\ Completed(Totalizer)
    /\ Len(summary_df) = 0
    /\ Len(summary_df_with_total) = 1
    /\ \A c \in {"qty_sold", "qty_returned", "total_cost", "logistics_cost",
                  "penalties", "total_expenses", "revenue", "net_profit"} :
         summary_df_with_total[1][c] = NumV(0)

(* C8: with an existing input file the stages run in the order Loader,     *)
(* Aggregator, Totalizer, Renderer, Reporter, each at most once; nothing   *)
(* runs after a stage that failed; the failure is caught and main returns  *)
(* normally; at the return the output file exists exactly if the Renderer  *)
(* completed.                                                              *)
C8_PipelineOrder ==
  input.kind # "missing" =>
    /\ Len(stages) <= Len(Pipeline)
    /\ \A k \in 1..Len(stages) : stages[k].stage = Pipeline[k]
    /\ \A k \in 1..Len(stages) : k < Len(stages) => stages[k].ok
    /\ (\E k \in 1..Len(stages) : ~stages[k].ok) =>
         /\ pc \in {"except", "exit"}
         /\ err # "none"
         /\ pc = "except" => ENABLED MainExcept
         /\ pc = "exit" => console[Len(console)] = "traceback"
    /\ pc = "exit" => (saved <=> Completed(Renderer))

\* the Reporter failed after the Renderer had saved the file
C8_Witness ==
  /\ pc = "exit"
  /\ Failed(Reporter)
  /\ saved

(* C9: when the input path does not exist, main prints a message and       *)
(* returns: no stage runs, no output file is written, nothing is raised.   *)
C9_MissingInput ==
  input.kind = "missing" =>
    /\ stages = <<>>
    /\ ~saved
    /\ err = "none"
    /\ pc \in {"main", "exit"}
    /\ pc = "main" => ENABLED MainFileNotFound
    /\ pc = "exit" => console[Len(console)] = "file_not_found"

C9_Witness ==
  /\ input.kind = "missing"
  /\ pc = "exit"

(* C10: record i (from 0) of the totalized frame is written to row i + 4;  *)
(* the bold font with the shaded fill is on every cell of the last row,    *)
(* the total record, and on no cell of another row; in every data row the  *)
(* net-profit cell is red when negative, green when positive and of the    *)
(* default colour when zero.                                               *)
C10_Sheet ==
  Completed(Renderer) =>
    LET n == Len(summary_df_with_total)
    IN  /\ Len(ws) = n + 3
        /\ \A i \in 0..(n - 1) : \A c \in 1..14 :
             ws[i + 4][c].value = summary_df_with_total[i + 1][headers[c]]
        /\ ws[n + 3][1].value = StrV(TotalMarker, 0)
        /\ \A r \in 1..(n + 3) : \A c \in 1..14 :
             (ws[r][c].font.bold /\ ws[r][c].fill = "E7E6E6") <=> r = n + 3
        /\ \A r \in 4..(n + 3) :
             LET profit == summary_df_with_total[r - 3].net_profit.v
             IN  ws[r][13].font.color =
                   (IF profit < 0 THEN "FF0000"
                    ELSE IF profit > 0 THEN "008000" ELSE "default")

\* a sheet with a zero and a negative net profit above the total row
C10_Witness ==
  /\ Completed(Renderer)
  /\ Len(summary_df_with_total) = 3
  /\ \E j, k \in 1..2 :
       /\ summary_df_with_total[j].net_profit.v = 0
       /\ summary_df_with_total[k].net_profit.v < 0
       /\ ws[j + 3][13].font.color = "default"
       /\ ws[k + 3][13].font.color = "FF0000"

====
